---- MODULE Spec2Model ----
(***************************************************************************)
(* A model of gum/backend-posix/gummemory-posix.c: the page allocator with *)
(* a hidden header page, the near-address allocator built on the free      *)
(* range scanner, the alignment-aware raw allocator and decommit.          *)
(*                                                                         *)
(* Addresses are byte addresses in 0..AddrLimit-1, memory is mapped and    *)
(* protected page by page, and every system call is one atomic step of the *)
(* thread that issues it. The range enumerator, gum_mprotect and the       *)
(* GUM_ALIGN macros live outside this file and are modelled by contract.   *)
(***************************************************************************)
EXTENDS Integers, Sequences, FiniteSets, TLC

VARIABLES mem, th, live, crashed, ops, sc, al

vars == <<mem, th, live, crashed, ops, sc, al>>

(* ------------------------------ bounds -------------------------------- *)

\* pages of the modelled address space
NumPages == 7
\* calls the threads make in one run
MaxOps == 3
\* largest page count a caller asks for
MaxN == 1
\* largest max_distance of an address spec, in pages
MaxDistPages == 2
\* largest byte size handed to gum_memory_allocate directly
MaxSize == 5
\* largest alignment handed to gum_memory_allocate, as a power of two
MaxAlignLog == 3
\* largest number of occupied ranges a mocked enumerator reports
MaxFeed == 3

(* ----------------------------- constants ------------------------------ *)

\* sysconf (_SC_PAGE_SIZE), scaled down
PageSize == 2

AddrLimit == NumPages * PageSize

\* gsize arithmetic wraps modulo the word size (scaled down with the
\* address space, and larger than it)
WordMod == 2 ^ 6

\* guint arithmetic wraps modulo a narrower word (scaled down likewise, and
\* larger than the address space)
UIntMod == 2 ^ 5

NULL == 0

Threads == {"t1", "t2"}

Pages == 0 .. (NumPages - 1)

Flags == {"R", "W", "X"}

GUM_PAGE_RW == {"R", "W"}

GUM_PAGE_READ == {"R"}

\* protections callers request in the concurrent specifications
ProtChoices == {{}, {"R", "W"}, {"R", "X"}}

\* the thread that allocates near an address, and the threads that allocate
\* anywhere; every thread frees
NearThreads == {"t1"}

PageThreads == {"t2"}

\* pages whose address a caller names as the target of a near allocation
Targets == {0, NumPages \div 2}

(* ------------------------- the OS address space ------------------------ *)

Unmapped == [mapped |-> FALSE, prot |-> {}, val |-> 0]

\* a fresh anonymous private page: zero filled
Fresh(prot) == [mapped |-> TRUE, prot |-> prot, val |-> 0]

\* the pages a byte range [addr, addr + len) touches
PagesOf(addr, len) ==
  {pg \in Pages : pg * PageSize < addr + len /\ (pg + 1) * PageSize > addr}

\* mappings of the process that the allocator did not create
Foreign == {0, NumPages \div 2, NumPages - 1}

InitMem == [pg \in Pages |-> IF pg \in Foreign THEN Fresh({"R"}) ELSE Unmapped]

MappedPages(m) == {pg \in Pages : m[pg].mapped}

\* mmap: the pages of [base, base + len) become fresh pages (an existing
\* mapping under a MAP_FIXED request is discarded and replaced)
Mmap(m, base, len, prot) ==
  [pg \in Pages |-> IF pg \in PagesOf(base, len) THEN Fresh(prot) ELSE m[pg]]

\* where the kernel may place a mapping of len bytes without MAP_FIXED:
\* any page-aligned run of unmapped pages, never address 0
FreeBases(m, len) ==
  IF len = 0 \/ len >= AddrLimit THEN {}
  ELSE {b \in 1 .. (AddrLimit - len) :
          /\ b % PageSize = 0
          /\ \A pg \in PagesOf(b, len) : ~m[pg].mapped}

\* whether a MAP_FIXED request is well formed
FixedOk(base, len) ==
  base % PageSize = 0 /\ len > 0 /\ base + len <= AddrLimit

\* munmap fails (EINVAL) on an unaligned address, a zero length or a range
\* outside the address space, and then changes nothing
MunmapOk(addr, len) ==
  addr % PageSize = 0 /\ len > 0 /\ addr + len <= AddrLimit

Munmap(m, addr, len) ==
  IF MunmapOk(addr, len)
  THEN [pg \in Pages |-> IF pg \in PagesOf(addr, len) THEN Unmapped ELSE m[pg]]
  ELSE m

\* mprotect fails (ENOMEM) when a page of the range is not mapped
MprotectOk(m, addr, len) ==
  addr % PageSize = 0 /\ \A pg \in PagesOf(addr, len) : m[pg].mapped

Mprotect(m, addr, len, prot) ==
  [pg \in Pages |->
     IF pg \in PagesOf(addr, len) THEN [m[pg] EXCEPT !.prot = prot] ELSE m[pg]]

CanWrite(m, addr) ==
  LET pg == addr \div PageSize IN pg \in Pages /\ m[pg].mapped /\ "W" \in m[pg].prot

\* PROT_WRITE or PROT_EXEC alone imply readability on the supported targets
CanRead(m, addr) ==
  LET pg == addr \div PageSize IN pg \in Pages /\ m[pg].mapped /\ m[pg].prot # {}

(* ------------------------ alignment arithmetic ------------------------- *)

\* GUM_ALIGN_SIZE (s, b): (s + (b - 1)) & ~(b - 1) on gsize
AlignSize(s, b) ==
  LET t == (s + (b - 1)) % WordMod IN t - (t % b)

NativeProt_ExecNeedsRead(page_prot) ==
  (IF "R" \in page_prot THEN {"PROT_READ"} ELSE {})
    \cup (IF "W" \in page_prot THEN {"PROT_WRITE"} ELSE {})
    \cup (IF "X" \in page_prot THEN {"PROT_READ", "PROT_EXEC"} ELSE {})

\* _gum_page_protection_to_posix
NativeProt(page_prot) ==
  (IF "R" \in page_prot THEN {"PROT_READ"} ELSE {})
    \cup (IF "W" \in page_prot THEN {"PROT_WRITE"} ELSE {})
    \cup (IF "X" \in page_prot THEN {"PROT_EXEC"} ELSE {})

\* what a mapping created with a native protection allows
PageProtOf(native) ==
  (IF "PROT_READ" \in native THEN {"R"} ELSE {})
    \cup (IF "PROT_WRITE" \in native THEN {"W"} ELSE {})
    \cup (IF "PROT_EXEC" \in native THEN {"X"} ELSE {})

\* gum_memory_allocate, first half: the size requested from the OS
AllocationSize(size, alignment) ==
  AlignSize((size + (alignment - PageSize)) % WordMod, PageSize)

\* gum_memory_allocate, second half: with the OS having placed the region at
\* base, trim the prefix and the suffix. Gives the memory afterwards, the
\* returned address and the tracked allocation size.
TrimAllocation(m, base, size, alignment, native) ==
  LET asz == AllocationSize(size, alignment)
      m0 == Mmap(m, base, asz, PageProtOf(native))
      aligned_base == AlignSize(base, alignment)
      prefix_size == aligned_base - base
      m1 == IF aligned_base # base THEN Munmap(m0, base, prefix_size) ELSE m0
      asz1 == IF aligned_base # base THEN (asz - prefix_size) % WordMod ELSE asz
      suffix_size == (asz1 - size) % WordMod
      m2 == IF asz1 # size THEN Munmap(m1, aligned_base + size, suffix_size) ELSE m1
      asz2 == IF asz1 # size THEN (asz1 - suffix_size) % WordMod ELSE asz1
  IN [mem |-> m2, ret |-> aligned_base, tracked |-> asz2, asz |-> asz,
      prefix |-> IF aligned_base # base THEN prefix_size ELSE 0,
      suffix |-> IF asz1 # size THEN suffix_size ELSE 0]

(* ------------------------------ threads -------------------------------- *)

Idle == [pc |-> "idle", n |-> 0, prot |-> {}, result |-> NULL, size |-> 0,
         target |-> 0, maxd |-> 0, ranges |-> <<>>, idx |-> 0, prev_end |-> 0,
         nmaps |-> 0, nfail |-> 0]

\* a live allocation: a pointer returned to the caller t and not yet passed
\* to gum_free_pages, with the page count it was asked for
Alloc(t, p, n) == [t |-> t, p |-> p, n |-> n]

Running == ~crashed

\* a thread that is between calls may make another one
MayCall(t) == Running /\ th[t].pc = "idle" /\ ops < MaxOps

(* ----------------------- gum_try_alloc_n_pages ------------------------- *)

HeaderNeedsUpgrade_Never(page_prot) == FALSE

\* the header page is made writable when the requested protection is not
HeaderNeedsUpgrade(page_prot) == "W" \notin page_prot

HeaderValue_UsableOnly(size) == size - PageSize

\* the value stored in the header page
HeaderValue(size) == size

\* the pointer handed to the caller
UsablePointer(result) == result + PageSize

\* size = (1 + n_pages) * page_size
TotalSize(n_pages) == (1 + n_pages) * PageSize

\* gum_memory_allocate (NULL, size, page_size, page_prot): the kernel picks
\* the place; a failure returns NULL to the caller
AllocPagesWith(t, prots) ==
  /\ MayCall(t)
  /\ ops' = ops + 1
  /\ \E n \in 1 .. MaxN, prot \in prots :
       \/ \E base \in FreeBases(mem, AllocationSize(TotalSize(n), PageSize)) :
            LET r == TrimAllocation(mem, base, TotalSize(n), PageSize,
                                    NativeProt(prot))
            IN /\ mem' = r.mem
               /\ th' = [th EXCEPT ![t] =
                           [Idle EXCEPT !.pc = IF HeaderNeedsUpgrade(prot)
                                               THEN "ap_hdr_rw" ELSE "ap_write",
                                        !.n = n, !.prot = prot,
                                        !.size = TotalSize(n),
                                        !.result = r.ret]]
       \/ /\ th' = [th EXCEPT ![t] = Idle]
          /\ mem' = mem
  /\ UNCHANGED <<live, crashed, sc, al>>

\* gum_try_alloc_n_pages called with one of a few protections
AllocPages(t) == AllocPagesWith(t, ProtChoices)

\* gum_try_alloc_n_pages called with any protection
AllocPagesAny(t) == AllocPagesWith(t, SUBSET Flags)

\* gum_mprotect (result, page_size, GUM_PAGE_RW)
HeaderUpgrade(t, next) ==
  IF MprotectOk(mem, th[t].result, PageSize)
  THEN /\ mem' = Mprotect(mem, th[t].result, PageSize, GUM_PAGE_RW)
       /\ th' = [th EXCEPT ![t].pc = next]
       /\ crashed' = crashed
  ELSE /\ crashed' = TRUE
       /\ UNCHANGED <<mem, th>>

\* *((gsize *) result) = size
HeaderWrite(t, next) ==
  IF CanWrite(mem, th[t].result)
  THEN /\ mem' = [mem EXCEPT ![th[t].result \div PageSize].val =
                                HeaderValue(th[t].size)]
       /\ th' = [th EXCEPT ![t].pc = next]
       /\ crashed' = crashed
  ELSE /\ crashed' = TRUE
       /\ UNCHANGED <<mem, th>>

HeaderSeal_NoProtect(t) ==
  /\ mem' = mem
  /\ live' = live \cup {Alloc(t, UsablePointer(th[t].result), th[t].n)}
  /\ th' = [th EXCEPT ![t] = Idle]
  /\ crashed' = crashed

\* gum_mprotect (result, page_size, GUM_PAGE_READ); return result + page_size
HeaderSeal(t) ==
  IF MprotectOk(mem, th[t].result, PageSize)
  THEN /\ mem' = Mprotect(mem, th[t].result, PageSize, GUM_PAGE_READ)
       /\ live' = live \cup {Alloc(t, UsablePointer(th[t].result), th[t].n)}
       /\ th' = [th EXCEPT ![t] = Idle]
       /\ crashed' = crashed
  ELSE /\ crashed' = TRUE
       /\ UNCHANGED <<mem, th, live>>

ApProtectRW(t) ==
  /\ Running /\ th[t].pc = "ap_hdr_rw"
  /\ HeaderUpgrade(t, "ap_write")
  /\ UNCHANGED <<live, ops, sc, al>>

ApWrite(t) ==
  /\ Running /\ th[t].pc = "ap_write"
  /\ HeaderWrite(t, "ap_seal")
  /\ UNCHANGED <<live, ops, sc, al>>

ApProtectR(t) ==
  /\ Running /\ th[t].pc = "ap_seal"
  /\ HeaderSeal(t)
  /\ UNCHANGED <<ops, sc, al>>

(* --------------------------- gum_free_pages ---------------------------- *)

HeaderOf_NoHeader(ptr) == ptr

\* where gum_free_pages looks for the header
HeaderOf(ptr) == ptr - PageSize

\* a caller passes a live pointer, which stops being live;
\* start = mem - page_size; size = *((gsize *) start)
FreePages(t) ==
  /\ MayCall(t)
  /\ ops' = ops + 1
  /\ \E a \in live :
       LET start == HeaderOf(a.p) IN
         /\ live' = live \ {a}
         /\ IF CanRead(mem, start)
            THEN /\ th' = [th EXCEPT ![t] =
                             [Idle EXCEPT !.pc = "fp_release", !.n = a.n,
                                          !.result = a.p,
                                          !.size = mem[start \div PageSize].val]]
                 /\ crashed' = crashed
            ELSE /\ crashed' = TRUE
                 /\ th' = th
  /\ UNCHANGED <<mem, sc, al>>

\* gum_memory_release (start, size)
FpRelease(t) ==
  /\ Running /\ th[t].pc = "fp_release"
  /\ mem' = Munmap(mem, HeaderOf(th[t].result), th[t].size)
  /\ th' = [th EXCEPT ![t] = Idle]
  /\ UNCHANGED <<live, crashed, ops, sc, al>>

(* ------------------------- free range scanner -------------------------- *)

Range(base, size) == [base |-> base, size |-> size]

RangeEnd(r) == r.base + r.size

\* the starts of the maximal runs of mapped pages
RunStarts(m) ==
  {pg \in Pages : m[pg].mapped /\ (pg = 0 \/ ~m[pg - 1].mapped)}

RunLength(m, pg) ==
  (CHOOSE e \in (pg + 1) .. NumPages :
     /\ \A q \in pg .. (e - 1) : m[q].mapped
     /\ (e = NumPages \/ ~m[e].mapped)) - pg

\* _gum_process_enumerate_ranges: the occupied ranges of the process as the
\* enumerator read them, ascending and non-overlapping
OccupiedRanges(m) ==
  LET S == RunStarts(m)
  IN [i \in 1 .. Cardinality(S) |->
        LET pg == CHOOSE s \in S : Cardinality({x \in S : x < s}) = i - 1
        IN Range(pg * PageSize, RunLength(m, pg) * PageSize)]

GapBefore_NoSentinel(prev_end, range) ==
  LET gap_size == (range.base - prev_end) % WordMod
  IN [emit |-> gap_size > 0, range |-> Range(prev_end, gap_size)]

\* gum_emit_free_range: whether a free range is handed to func before the
\* occupied range, and which
GapBefore(prev_end, range) ==
  LET gap_size == (range.base - prev_end) % WordMod
  IN [emit |-> prev_end # 0 /\ gap_size > 0,
      range |-> Range(prev_end, gap_size)]

EmitCarryOn_Ignored(called, func_result) == TRUE

\* gum_emit_free_range: what it returns to the enumerator, given whether it
\* called func and what func returned
EmitCarryOn(called, func_result) == IF called THEN func_result ELSE TRUE

\* gum_emit_free_range: ctx->prev_end = end
NextPrevEnd(range) == RangeEnd(range)

(* ---------------------- gum_try_alloc_n_pages_near --------------------- *)

Abs(x) == IF x < 0 THEN -x ELSE x

\* distance = ABS (near_address - base_address)
Distance(target, base) == Abs(target - base)

NearCandidate_NoRecheck(size, target, maxd, range) ==
  IF range.size < size
  THEN [attempt |-> FALSE, base |-> NULL]
  ELSE LET primary == range.base
           alternate == range.base + range.size - size
       IN [attempt |-> TRUE,
           base |-> IF Distance(target, primary) > maxd THEN alternate
                    ELSE primary]

NearCandidate_PastEnd(size, target, maxd, range) ==
  IF range.size < size
  THEN [attempt |-> FALSE, base |-> NULL]
  ELSE LET primary == range.base
           alternate == range.base + range.size - size + PageSize
           base == IF Distance(target, primary) > maxd THEN alternate
                   ELSE primary
       IN [attempt |-> Distance(target, base) <= maxd, base |-> base]

NearCandidate_PrimaryOnly(size, target, maxd, range) ==
  [attempt |-> range.size >= size /\ Distance(target, range.base) <= maxd,
   base |-> range.base]

\* gum_try_alloc_in_range_if_near_enough up to the mmap: whether a mapping
\* is attempted in the free range, and where
NearCandidate(size, target, maxd, range) ==
  IF range.size < size
  THEN [attempt |-> FALSE, base |-> NULL]
  ELSE LET primary == range.base
           alternate == range.base + range.size - size
           base == IF Distance(target, primary) > maxd THEN alternate
                   ELSE primary
       IN [attempt |-> Distance(target, base) <= maxd, base |-> base]

NearResult_CarryOnAfterMapping(ok, base) ==
  [result |-> IF ok THEN base ELSE NULL, carry_on |-> TRUE]

NearResult_StopOnFailure(ok, base) ==
  [result |-> IF ok THEN base ELSE NULL, carry_on |-> FALSE]

\* gum_try_alloc_in_range_if_near_enough after the mmap: MAP_FAILED sets
\* the result to NULL and carries on, a mapping stops the scan
NearResult(ok, base) ==
  [result |-> IF ok THEN base ELSE NULL, carry_on |-> ~ok]

\* the enumerator, having no further range or a callback that returned
\* FALSE, returns
ScanOver(carry_on, idx, ranges) == ~carry_on \/ idx > Len(ranges)

\* the call: the context is set up and the enumerator reads the occupied
\* ranges of the process
CallAllocNear(t) ==
  /\ MayCall(t)
  /\ ops' = ops + 1
  /\ \E n \in 1 .. MaxN, prot \in ProtChoices, tp \in Targets,
        dp \in 0 .. MaxDistPages :
       th' = [th EXCEPT ![t] =
                [Idle EXCEPT !.n = n, !.prot = prot,
                             !.size = TotalSize(n),
                             !.target = tp * PageSize,
                             !.maxd = dp * PageSize,
                             !.ranges = OccupiedRanges(mem), !.idx = 1,
                             !.pc = IF ScanOver(TRUE, 1, OccupiedRanges(mem))
                                    THEN "near_done" ELSE "near_scan"]]
  /\ UNCHANGED <<mem, live, crashed, sc, al>>

\* one occupied range goes through gum_emit_free_range and, with a gap
\* before it, through gum_try_alloc_in_range_if_near_enough
NearScanStep(t) ==
  /\ Running /\ th[t].pc = "near_scan"
  /\ th[t].idx <= Len(th[t].ranges)
  /\ LET range == th[t].ranges[th[t].idx]
         g == GapBefore(th[t].prev_end, range)
         c == NearCandidate(th[t].size, th[t].target, th[t].maxd, g.range)
         attempt == g.emit /\ c.attempt
         step(ok) ==
           LET r == NearResult(ok, c.base)
               carry == EmitCarryOn(g.emit, IF attempt THEN r.carry_on ELSE TRUE)
           IN th' = [th EXCEPT
                ![t].result = IF attempt THEN r.result ELSE th[t].result,
                ![t].prev_end = NextPrevEnd(range),
                ![t].idx = th[t].idx + 1,
                ![t].nmaps = th[t].nmaps + (IF attempt /\ ok THEN 1 ELSE 0),
                ![t].nfail = th[t].nfail + (IF attempt /\ ~ok THEN 1 ELSE 0),
                ![t].pc = IF ScanOver(carry, th[t].idx + 1, th[t].ranges)
                          THEN "near_done" ELSE "near_scan"]
     IN \* mmap with MAP_FIXED maps the candidate, whatever is mapped there now
        \/ /\ attempt /\ FixedOk(c.base, th[t].size)
           /\ mem' = Mmap(mem, c.base, th[t].size,
                          PageProtOf(NativeProt(th[t].prot)))
           /\ step(TRUE)
        \* or the kernel refuses the mapping (MAP_FAILED)
        \/ /\ attempt
           /\ mem' = mem
           /\ step(FALSE)
        \* or the range is skipped without a system call
        \/ /\ ~attempt
           /\ mem' = mem
           /\ step(FALSE)
  /\ UNCHANGED <<live, crashed, ops, sc, al>>

\* if (ctx.result == NULL) return NULL;
NearFinish(t) ==
  /\ Running /\ th[t].pc = "near_done"
  /\ th' = [th EXCEPT ![t] =
              IF th[t].result = NULL THEN Idle
              ELSE [th[t] EXCEPT !.pc = IF HeaderNeedsUpgrade(th[t].prot)
                                        THEN "na_hdr_rw" ELSE "na_write"]]
  /\ UNCHANGED <<mem, live, crashed, ops, sc, al>>

NaProtectRW(t) ==
  /\ Running /\ th[t].pc = "na_hdr_rw"
  /\ HeaderUpgrade(t, "na_write")
  /\ UNCHANGED <<live, ops, sc, al>>

NaWrite(t) ==
  /\ Running /\ th[t].pc = "na_write"
  /\ HeaderWrite(t, "na_seal")
  /\ UNCHANGED <<live, ops, sc, al>>

NaProtectR(t) ==
  /\ Running /\ th[t].pc = "na_seal"
  /\ HeaderSeal(t)
  /\ UNCHANGED <<ops, sc, al>>

(* ------------------ gum_query_page_allocation_range -------------------- *)

QueryAllocationRange_UsableOnly(ptr, size) == Range(ptr, size % UIntMod)

\* range->base_address = mem - page_size; range->size = size + page_size,
\* the size being passed as a guint
QueryAllocationRange(ptr, size) ==
  Range((ptr - PageSize) % WordMod, ((size % UIntMod) + PageSize) % WordMod)

\* a caller between calls asks for the range of a live allocation of n
\* pages, passing its pointer and n * page_size; the answer is left in the
\* caller's range
QueryPageAllocationRange(t) ==
  /\ Running /\ th[t].pc = "idle"
  /\ \E a \in live :
       th' = [th EXCEPT ![t] =
                [Idle EXCEPT !.n = a.n, !.result = a.p,
                             !.ranges = <<QueryAllocationRange(
                                            a.p, a.n * PageSize)>>]]
  /\ UNCHANGED <<mem, live, crashed, ops, sc, al>>

(* ------------------ gum_enumerate_free_ranges, mocked ------------------ *)

\* gum_enumerate_free_ranges: ctx = { func, user_data, 0 } and the
\* enumerator is started
ScanStart ==
  /\ ~sc.active
  /\ sc' = [active |-> TRUE, feed |-> <<>>, prev_end |-> 0, emitted |-> <<>>,
            func_stop |-> FALSE, carry_on |-> TRUE]
  /\ UNCHANGED <<mem, th, live, crashed, ops, al>>

\* where the enumerator's last reported range ended
FeedEnd(feed) == IF Len(feed) = 0 THEN 0 ELSE RangeEnd(feed[Len(feed)])

\* the enumerator reports its next occupied range, in ascending order and
\* not overlapping the one before, to gum_emit_free_range; func, when it is
\* called, answers either way
ScanRange ==
  /\ sc.active /\ sc.carry_on /\ Len(sc.feed) < MaxFeed
  /\ \E base \in FeedEnd(sc.feed) .. (AddrLimit - 1), func_result \in BOOLEAN :
       \E size \in 1 .. (AddrLimit - base) :
         LET range == Range(base, size)
             g == GapBefore(sc.prev_end, range)
         IN sc' = [sc EXCEPT
                     !.feed = Append(sc.feed, range),
                     !.emitted = IF g.emit THEN Append(sc.emitted, g.range)
                                 ELSE sc.emitted,
                     !.func_stop = g.emit /\ ~func_result,
                     !.carry_on = EmitCarryOn(g.emit, func_result),
                     !.prev_end = NextPrevEnd(range)]
  /\ UNCHANGED <<mem, th, live, crashed, ops, al>>

\* the enumerator returns: the callback returned FALSE or it has reported
\* every range
ScanEnd ==
  /\ sc.active
  /\ sc' = [sc EXCEPT !.active = FALSE]
  /\ UNCHANGED <<mem, th, live, crashed, ops, al>>

(* ----------- gum_memory_allocate, free, commit and decommit ------------ *)

Alignments == {2 ^ k : k \in 0 .. MaxAlignLog}

\* protections asked of the raw allocator
RawProts == {{"R", "W"}}

NoAllocation == [size |-> 0, alignment |-> 1, base |-> NULL, ret |-> NULL,
                 asz |-> 0, tracked |-> 0, adv1 |-> "none", adv2 |-> "none",
                 dret |-> "none", cret |-> "none"]

\* gum_memory_allocate (address, size, alignment, page_prot): the hint is
\* only advice, the kernel places the region where it is free
MemoryAllocate ==
  /\ al.ret = NULL
  /\ \E size \in 1 .. MaxSize, alignment \in Alignments, prot \in RawProts :
       \/ \E base \in FreeBases(mem, AllocationSize(size, alignment)) :
            LET r == TrimAllocation(mem, base, size, alignment, NativeProt(prot))
            IN /\ mem' = r.mem
               /\ al' = [NoAllocation EXCEPT !.size = size,
                                            !.alignment = alignment,
                                            !.base = base, !.ret = r.ret,
                                            !.asz = r.asz,
                                            !.tracked = r.tracked]
       \/ /\ mem' = mem
          /\ al' = NoAllocation
  /\ UNCHANGED <<th, live, crashed, ops, sc>>

\* gum_memory_free (address, size) / gum_memory_release (address, size)
MemoryFree ==
  /\ al.ret # NULL
  /\ mem' = Munmap(mem, al.ret, al.size)
  /\ al' = NoAllocation
  /\ UNCHANGED <<th, live, crashed, ops, sc>>

\* gum_memory_commit
MemoryCommit ==
  /\ al.ret # NULL
  /\ al' = [al EXCEPT !.cret = "ok"]
  /\ UNCHANGED <<mem, th, live, crashed, ops, sc>>

\* what madvise may answer
AdviseOutcomes == {"ok", "ENOSYS", "EINVAL", "ENOMEM"}

Decommit_RetryAlways(o1, o2) ==
  IF o1 = "ok" THEN [ret |-> "ok", adv2 |-> "none"]
  ELSE IF o1 = "ENOSYS" THEN [ret |-> "ok", adv2 |-> "none"]
  ELSE [ret |-> IF o2 = "ok" THEN "ok" ELSE "fail", adv2 |-> o2]

\* gum_memory_decommit, given what madvise answers to MADV_FREE (o1) and
\* what it would answer to MADV_DONTNEED (o2): the result and the answer to
\* the retry when one is made
Decommit(o1, o2) ==
  IF o1 = "ok" THEN [ret |-> "ok", adv2 |-> "none"]
  ELSE IF o1 = "ENOSYS" THEN [ret |-> "ok", adv2 |-> "none"]
  ELSE IF o1 = "EINVAL"
       THEN [ret |-> IF o2 = "ok" THEN "ok" ELSE "fail", adv2 |-> o2]
  ELSE [ret |-> "fail", adv2 |-> "none"]

Discard_Unmaps(m, addr, len) ==
  [pg \in Pages |-> IF pg \in PagesOf(addr, len) THEN Unmapped ELSE m[pg]]

\* an advisory that succeeds lets the kernel drop the contents of the pages
Discard(m, addr, len) ==
  [pg \in Pages |->
     IF pg \in PagesOf(addr, len) /\ m[pg].mapped
     THEN [m[pg] EXCEPT !.val = 0] ELSE m[pg]]

MemoryDecommit ==
  /\ al.ret # NULL
  /\ \E o1 \in AdviseOutcomes, o2 \in AdviseOutcomes :
       LET d == Decommit(o1, o2)
       IN /\ al' = [al EXCEPT !.adv1 = o1, !.adv2 = d.adv2, !.dret = d.ret]
          /\ mem' = IF o1 = "ok" \/ d.adv2 = "ok"
                    THEN Discard(mem, al.ret, al.size) ELSE mem
  /\ UNCHANGED <<th, live, crashed, ops, sc>>

(* --------------------------- specifications ---------------------------- *)

NoScan == [active |-> FALSE, feed |-> <<>>, prev_end |-> 0, emitted |-> <<>>,
           func_stop |-> FALSE, carry_on |-> TRUE]

Init ==
  /\ mem = InitMem
  /\ th = [t \in Threads |-> Idle]
  /\ live = {}
  /\ crashed = FALSE
  /\ ops = 0
  /\ sc = NoScan
  /\ al = NoAllocation

\* threads that only use the sized page allocator
NextPages ==
  \E t \in Threads :
    \/ AllocPagesAny(t)
    \/ ApProtectRW(t)
    \/ ApWrite(t)
    \/ ApProtectR(t)
    \/ FreePages(t)
    \/ FpRelease(t)

SpecPages == Init /\ [][NextPages]_vars

\* a thread allocating near an address beside a thread using the sized page
\* allocator
Next ==
  \/ \E t \in PageThreads :
       \/ AllocPages(t)
       \/ ApProtectRW(t)
       \/ ApWrite(t)
       \/ ApProtectR(t)
  \/ \E t \in Threads :
       \/ FreePages(t)
       \/ FpRelease(t)
  \/ \E t \in NearThreads :
       \/ CallAllocNear(t)
       \/ NearScanStep(t)
       \/ NearFinish(t)
       \/ NaProtectRW(t)
       \/ NaWrite(t)
       \/ NaProtectR(t)

Spec == Init /\ [][Next]_vars

\* one thread using every operation of the page allocators, with no other
\* thread mapping memory meanwhile
NextSolo ==
  \E t \in NearThreads :
    \/ AllocPages(t)
    \/ ApProtectRW(t)
    \/ ApWrite(t)
    \/ ApProtectR(t)
    \/ CallAllocNear(t)
    \/ NearScanStep(t)
    \/ NearFinish(t)
    \/ NaProtectRW(t)
    \/ NaWrite(t)
    \/ NaProtectR(t)
    \/ FreePages(t)
    \/ FpRelease(t)
    \/ QueryPageAllocationRange(t)

SpecSolo == Init /\ [][NextSolo]_vars

\* a process with any set of pages mapped before the allocator is used
InitNear ==
  /\ mem \in [Pages -> {Unmapped, Fresh({"R"})}]
  /\ th = [t \in Threads |-> Idle]
  /\ live = {}
  /\ crashed = FALSE
  /\ ops = 0
  /\ sc = NoScan
  /\ al = NoAllocation

\* one thread allocating near an address and freeing, in any such process
NextNear ==
  \E t \in NearThreads :
    \/ CallAllocNear(t)
    \/ NearScanStep(t)
    \/ NearFinish(t)
    \/ NaProtectRW(t)
    \/ NaWrite(t)
    \/ NaProtectR(t)
    \/ FreePages(t)
    \/ FpRelease(t)

SpecNear == InitNear /\ [][NextNear]_vars

\* the free range scanner driven by a mocked enumerator and a mocked func
NextScan == ScanStart \/ ScanRange \/ ScanEnd

SpecScan == Init /\ [][NextScan]_vars

\* a process with one mapping, from which the raw allocator is called
InitAlloc ==
  /\ mem = [pg \in Pages |-> IF pg = 0 THEN Fresh({"R"}) ELSE Unmapped]
  /\ th = [t \in Threads |-> Idle]
  /\ live = {}
  /\ crashed = FALSE
  /\ ops = 0
  /\ sc = NoScan
  /\ al = NoAllocation

NextAlloc == MemoryAllocate \/ MemoryFree \/ MemoryCommit \/ MemoryDecommit

SpecAlloc == InitAlloc /\ [][NextAlloc]_vars

(* ------------------------------- claims -------------------------------- *)

\* the backing region of a live allocation: header page and usable pages
RegionPages(a) == PagesOf(HeaderOf(a.p), TotalSize(a.n))

\* a thread whose near allocation has mapped a region and is on its way to
\* returning UsablePointer(result)
NearSucceeded(t) == th[t].pc \in {"na_hdr_rw", "na_write", "na_seal"}

InNearCall(t) == th[t].pc \in {"near_scan", "near_done"} \/ NearSucceeded(t)

\* C1: every successful allocatePagesNear returns a pointer p such that p,
\* or the end of p's region, is within maxDistance of the target.
C1_DistanceOfPointer ==
  \A t \in Threads :
    NearSucceeded(t) =>
      \/ Distance(th[t].target, UsablePointer(th[t].result)) <= th[t].maxd
      \/ Distance(th[t].target, th[t].result + th[t].size) <= th[t].maxd

\* the free gaps of the address space as the enumerator saw it: before the
\* first occupied range, between two occupied ranges, after the last one
AllGaps(ranges) ==
  IF Len(ranges) = 0 THEN {Range(0, AddrLimit)}
  ELSE {g \in
          {Range(0, ranges[1].base),
           Range(RangeEnd(ranges[Len(ranges)]),
                 AddrLimit - RangeEnd(ranges[Len(ranges)]))}
          \cup {Range(RangeEnd(ranges[i]), ranges[i + 1].base - RangeEnd(ranges[i])) :
                  i \in 1 .. (Len(ranges) - 1)} :
          g.size > 0}

\* a gap holds a region of the size somewhere within the distance
GapSatisfies(g, size, target, maxd) ==
  /\ g.size >= size
  /\ \E b \in g.base .. (g.base + g.size - size) : Distance(target, b) <= maxd

NoGapSatisfies(t) ==
  \A g \in AllGaps(th[t].ranges) :
    ~GapSatisfies(g, th[t].size, th[t].target, th[t].maxd)

\* C2: when no free gap of the address space satisfies both the size and
\* the distance requirement, allocatePagesNear creates no mapping and is
\* left with no result, so that it returns none.
C2_NoGapNoMapping ==
  \A t \in Threads :
    (InNearCall(t) /\ NoGapSatisfies(t)) =>
      (th[t].nmaps = 0 /\ th[t].result = NULL /\ ~NearSucceeded(t))

C2_Witness ==
  \E t \in Threads :
    /\ th[t].pc = "near_done"
    /\ NoGapSatisfies(t)
    /\ \E g \in AllGaps(th[t].ranges) : g.size >= th[t].size

\* C3: no two live allocations ever have overlapping backing regions.
C3_NoOverlap ==
  \A a \in live : \A b \in live :
    a # b => RegionPages(a) \cap RegionPages(b) = {}

\* C9: a failed fixed-address mapping never ends the scan: the call is left
\* without a result only when every occupied range was consumed and no
\* mapping succeeded, and a mapping that succeeds after a failed one is the
\* result.
C9_FailureAbsorbed ==
  \A t \in Threads :
    th[t].pc = "near_done" =>
      /\ (th[t].result = NULL =>
            (th[t].idx > Len(th[t].ranges) /\ th[t].nmaps = 0))
      /\ (th[t].nmaps > 0 => th[t].result # NULL)

C9_Witness ==
  \E t \in Threads :
    th[t].pc = "near_done" /\ th[t].nfail > 0 /\ th[t].result # NULL

\* C6: the pointer allocatePages returns is page aligned, its n pages are
\* mapped, and the header page before it holds (n + 1) * pageSize.
C6_PagesAndHeader ==
  \A a \in live :
    /\ a.p % PageSize = 0
    /\ \A pg \in PagesOf(a.p, a.n * PageSize) : mem[pg].mapped
    /\ mem[(a.p - PageSize) \div PageSize].mapped
    /\ mem[(a.p - PageSize) \div PageSize].val = (a.n + 1) * PageSize

C6_Witness ==
  \E a \in live :
    /\ a.n = MaxN
    /\ mem[(a.p - PageSize) \div PageSize].val = (MaxN + 1) * PageSize
    /\ mem[a.p \div PageSize].prot = {"X"}

\* every thread is between calls and nothing is allocated
Quiescent == live = {} /\ \A t \in Threads : th[t].pc = "idle"

\* the release step of freePages(p) for an allocation of n pages unmaps the
\* pages of [p - pageSize, p - pageSize + (n + 1) * pageSize) and no other
FreeUnmapsExactly ==
  \A t \in Threads :
    (th[t].pc = "fp_release" /\ th'[t].pc = "idle") =>
      LET region == PagesOf(th[t].result - PageSize, (th[t].n + 1) * PageSize)
      IN /\ \A pg \in region : mem[pg].mapped
         /\ mem' = [pg \in Pages |-> IF pg \in region THEN Unmapped ELSE mem[pg]]

\* C5: freePages(p) unmaps exactly the backing region of the allocation, and
\* once every allocation is freed the mapped addresses are what they were.
C5_RoundTrip ==
  /\ [](Quiescent => mem = InitMem)
  /\ [][FreeUnmapsExactly]_vars

C5_Witness ==
  \E t \in Threads :
    /\ th[t].pc = "fp_release"
    /\ th[t].size = (th[t].n + 1) * PageSize
    /\ live # {}

\* the free ranges between consecutive occupied ranges of a feed, in order
ExpectedGaps(feed) ==
  LET between == [i \in 1 .. (Len(feed) - 1) |->
                    Range(RangeEnd(feed[i]), feed[i + 1].base - RangeEnd(feed[i]))]
      keep(g) == g.size > 0
  IN SelectSeq(between, keep)

RangesMeet(r, q) == r.base < RangeEnd(q) /\ q.base < RangeEnd(r)

\* C7: func receives, in ascending order, exactly the non-empty gaps between
\* consecutive occupied ranges: nothing before the first range, nothing
\* after the last, nothing that meets an occupied range.
C7_ExactlyTheGaps ==
  /\ sc.emitted = ExpectedGaps(sc.feed)
  /\ \A i \in 1 .. Len(sc.emitted) :
       /\ sc.emitted[i].base >= RangeEnd(sc.feed[1])
       /\ RangeEnd(sc.emitted[i]) <= sc.feed[Len(sc.feed)].base
       /\ \A j \in 1 .. Len(sc.feed) : ~RangesMeet(sc.emitted[i], sc.feed[j])
       /\ i > 1 => sc.emitted[i - 1].base < sc.emitted[i].base

\* the scaled example: occupied [0,2) and [3,4) give exactly {base 2, size 1}
C7_Witness ==
  /\ ~sc.active
  /\ sc.feed = <<Range(0, 2), Range(3, 1)>>
  /\ sc.emitted = <<Range(2, 1)>>

\* C8: when func signals stop the callback returns the stop to the
\* enumerator, and from then on func receives nothing and no further
\* occupied range is consumed in that scan.
C8_StopIsFinal ==
  /\ [](sc.func_stop => ~sc.carry_on)
  /\ [][(sc.func_stop /\ sc.active) =>
          (sc'.emitted = sc.emitted /\ sc'.feed = sc.feed)]_vars

C8_Witness ==
  sc.func_stop /\ ~sc.active /\ Len(sc.feed) < MaxFeed /\ Len(sc.emitted) = 1

\* the bytes of the region the raw allocator obtained from the OS
ObtainedBytes == al.base .. (al.base + al.asz - 1)

ByteMapped(b) == b \div PageSize \in Pages /\ mem[b \div PageSize].mapped

\* C4: allocate returns an address aligned to the alignment, and of the
\* region it obtained exactly the size bytes from that address stay mapped.
C4_ExactlySize ==
  al.ret # NULL =>
    /\ al.ret % al.alignment = 0
    /\ \A b \in al.ret .. (al.ret + al.size - 1) : ByteMapped(b)
    /\ \A b \in ObtainedBytes :
         ByteMapped(b) => (al.ret <= b /\ b < al.ret + al.size)

\* C10: decommit succeeds exactly when the first advisory succeeds, or is
\* not supported, or is invalid and the retried advisory succeeds; the retry
\* is made only after an invalid-request failure.
C10_DecommitResult ==
  al.dret # "none" =>
    /\ (al.dret = "ok") <=>
         \/ al.adv1 = "ok"
         \/ al.adv1 = "ENOSYS"
         \/ (al.adv1 = "EINVAL" /\ al.adv2 = "ok")
    /\ al.adv2 # "none" => al.adv1 = "EINVAL"

C10_Witness ==
  al.dret = "ok" /\ al.adv1 = "EINVAL" /\ al.adv2 = "ok"

\* a write to any byte of the region the raw allocator returned does not
\* fault
RegionWritable(m) == \A b \in al.ret .. (al.ret + al.size - 1) : CanWrite(m, b)

\* a step of commit or decommit: the allocation stays what it was
CommitOrDecommitStep == al.ret # NULL /\ al'.ret = al.ret /\ al' # al

\* C11: commit always returns success; a commit or decommit step changes
\* neither which pages are mapped nor their protection, so a region that
\* was mapped and writable is still mapped and writable after decommit and
\* commit; pages leave the mapped set only in a free/release step.
C11_CommitDecommitFrame ==
  /\ [](al.cret \in {"none", "ok"})
  /\ [][CommitOrDecommitStep =>
          /\ \A pg \in Pages : /\ mem'[pg].mapped = mem[pg].mapped
                               /\ mem'[pg].prot = mem[pg].prot
          /\ RegionWritable(mem) => RegionWritable(mem')]_vars
  /\ [][(\E pg \in Pages : mem[pg].mapped /\ ~mem'[pg].mapped) =>
          (al.ret # NULL /\ al' = NoAllocation)]_vars

C11_Witness ==
  /\ al.ret # NULL /\ al.dret = "ok" /\ al.adv1 = "ok" /\ al.cret = "ok"
  /\ al.size = 2 * PageSize
  /\ RegionWritable(mem)

\* a thread that holds the answer of gum_query_page_allocation_range
Queried(t) == th[t].pc = "idle" /\ th[t].ranges # <<>>

\* a step in which a thread between calls is given the answer of a query
QueryStep ==
  \E t \in Threads : th[t].pc = "idle" /\ th'[t] # th[t] /\ Queried(t)'

NativeBit == [f \in Flags |-> CASE f = "R" -> "PROT_READ"
                                [] f = "W" -> "PROT_WRITE"
                                [] f = "X" -> "PROT_EXEC"]

PROT_NONE == {}

\* a thread inside gum_try_alloc_n_pages, its region mapped
InAllocPages(t) == th[t].pc \in {"ap_hdr_rw", "ap_write", "ap_seal"}

\* C13: the protection mapper answers for each of the 8 flag sets; a native
\* bit is set exactly when its flag is in the set, whatever the other two
\* flags are, and the empty set gives "no access"; the pages mapped for a
\* request get the protection so computed.
C13_BitsFollowFlags ==
  /\ \A page_prot \in SUBSET Flags :
       /\ NativeProt(page_prot) \in SUBSET {NativeBit[f] : f \in Flags}
       /\ \A f \in Flags : NativeBit[f] \in NativeProt(page_prot) <=> f \in page_prot
       /\ \A f \in Flags : \A g \in Flags \ {f} :
            (NativeBit[f] \in NativeProt(page_prot \cup {g}))
              = (NativeBit[f] \in NativeProt(page_prot \ {g}))
  /\ NativeProt({}) = PROT_NONE
  /\ \A t \in Threads :
       InAllocPages(t) =>
         \A pg \in PagesOf(UsablePointer(th[t].result), th[t].n * PageSize) :
           /\ mem[pg].mapped
           /\ \A f \in Flags :
                f \in mem[pg].prot <=> NativeBit[f] \in NativeProt(th[t].prot)

C13_Witness ==
  /\ \E t \in Threads :
       /\ th[t].pc = "ap_hdr_rw" /\ th[t].prot = {"X"}
       /\ mem[UsablePointer(th[t].result) \div PageSize].prot = {"X"}
  /\ \E t \in Threads :
       /\ th[t].pc = "ap_write" /\ th[t].prot = {"R", "W", "X"}
       /\ mem[UsablePointer(th[t].result) \div PageSize].prot = {"R", "W", "X"}

\* a step of thread t in which one occupied range of its scan is consumed
ScanStepOf(t) == th[t].pc = "near_scan" /\ th'[t].idx = th[t].idx + 1

\* the free range such a step hands to the predicate, when it hands one
HandedRange(t) == GapBefore(th[t].prev_end, th[t].ranges[th[t].idx])

\* the step called mmap with MAP_FIXED, and mmap mapped the region
Attempted(t) ==
  th'[t].nmaps + th'[t].nfail = th[t].nmaps + th[t].nfail + 1

Mapped(t) == th'[t].nmaps = th[t].nmaps + 1

\* the claimed condition for an attempt in the free range r, and its place
WithinBudget(t, base) == Abs(th[t].target - base) <= th[t].maxd

EndAligned(t, r) == r.base + r.size - th[t].size

ShouldAttempt(t, r) ==
  r.size >= th[t].size /\ (WithinBudget(t, r.base)
                             \/ WithinBudget(t, EndAligned(t, r)))

AttemptBase(t, r) ==
  IF WithinBudget(t, r.base) THEN r.base ELSE EndAligned(t, r)

\* C14: a free range handed to the predicate leads to a fixed mapping
\* attempt exactly when it is large enough and its base or its end-aligned
\* base is within the distance; the attempt is at the base when that is
\* within the distance, else at the end-aligned base; any other range is
\* passed over and the scan goes on; free ranges come in ascending order
\* and the first mapping that succeeds is the result.
C14_AttemptRule ==
  [][\A t \in Threads :
       ScanStepOf(t) =>
         LET g == HandedRange(t) IN
           /\ Attempted(t) <=> (g.emit /\ ShouldAttempt(t, g.range))
           /\ Mapped(t) =>
                /\ th'[t].result = AttemptBase(t, g.range)
                /\ \A pg \in PagesOf(AttemptBase(t, g.range), th[t].size) :
                     mem'[pg] = Fresh(th[t].prot)
                /\ th[t].nmaps = 0
                /\ th'[t].pc = "near_done"
           /\ ~Mapped(t) =>
                /\ mem' = mem
                /\ th'[t].pc = "near_done" => th'[t].idx > Len(th[t].ranges)
           /\ ~Attempted(t) => th'[t].result = th[t].result
           /\ g.emit => g.range.base >= th[t].prev_end
           /\ th'[t].prev_end > th[t].prev_end]_vars

\* a mapping made at an end-aligned base that is not the base of its range
C14_Witness ==
  \E t \in Threads :
    /\ th[t].pc = "near_done" /\ th[t].nmaps = 1
    /\ th[t].idx > 2
    /\ th[t].result > RangeEnd(th[t].ranges[th[t].idx - 2])
    /\ th[t].result + th[t].size = th[t].ranges[th[t].idx - 1].base

UpgradePcs == {"ap_hdr_rw", "na_hdr_rw"}

WritePcs == {"ap_write", "na_write"}

SealPcs == {"ap_seal", "na_seal"}

\* the header page of the region a thread has mapped
HeaderPage(t) == th[t].result \div PageSize

\* C15: the size is written into the header page only while that page is
\* writable: a call whose protection lacks Write first makes the header
\* page Read+Write, any call then writes the size, and only then is the
\* header page made Read-only; the write never faults.
C15_WriteWhileWritable ==
  /\ [](~crashed)
  /\ [](\A t \in Threads :
          th[t].pc \in WritePcs => CanWrite(mem, th[t].result))
  /\ [][\A t \in Threads :
          LET hp == HeaderPage(t)
              moved == th'[t].pc # th[t].pc
          IN /\ (moved /\ th'[t].pc \in UpgradePcs) =>
                  ("W" \notin th'[t].prot /\ th[t].pc \notin WritePcs \cup SealPcs)
             /\ (moved /\ th'[t].pc \in WritePcs) =>
                  IF "W" \in th'[t].prot THEN th[t].pc \notin UpgradePcs
                  ELSE /\ th[t].pc \in UpgradePcs
                       /\ mem'[hp].prot = GUM_PAGE_RW
                       /\ mem'[hp].val = mem[hp].val
             /\ (moved /\ th[t].pc \in WritePcs) =>
                  /\ th'[t].pc \in SealPcs
                  /\ "W" \in mem[hp].prot
                  /\ mem'[hp].prot = mem[hp].prot
                  /\ mem'[hp].val = th[t].size
             /\ (moved /\ th[t].pc \in SealPcs) =>
                  /\ mem'[hp].prot = GUM_PAGE_READ
                  /\ mem'[hp].val = th[t].size
             /\ (moved /\ th'[t].pc \in SealPcs) => th[t].pc \in WritePcs
             /\ (th[t].pc \in UpgradePcs \cup SealPcs /\ th[t].result # NULL) =>
                  mem'[hp].val = mem[hp].val]_vars

C15_Witness ==
  \E t \in Threads :
    /\ th[t].pc = "na_seal" /\ th[t].prot = {}
    /\ mem[HeaderPage(t)].prot = GUM_PAGE_RW
    /\ mem[HeaderPage(t)].val = th[t].size
    /\ mem[HeaderPage(t) + 1].prot = {}

\* the prefix gum_memory_allocate trimmed, and the suffix it computed, as
\* integers
TrimmedPrefix == al.ret - al.base

SuffixSize == al.asz - TrimmedPrefix - al.size

\* C16: when allocate returns a region the tracked allocation size equals
\* the size, the trimmed prefix does not exceed the allocation size and the
\* suffix size is not negative.
C16_TrackedSizeIsSize ==
  al.ret # NULL =>
    /\ al.tracked = al.size
    /\ TrimmedPrefix <= al.asz
    /\ SuffixSize >= 0

\* the region a scan step asks mmap to map with MAP_FIXED
AttemptedRegion(t) ==
  Range(NearCandidate(th[t].size, th[t].target, th[t].maxd,
                      HandedRange(t).range).base,
        th[t].size)

\* C17: the region of every fixed mapping attempt lies inside the free
\* range handed to the predicate and meets no range the enumerator reported
\* as occupied in that scan; a mapping that is made changes no page outside
\* that free range.
C17_AttemptInsideGap ==
  [][\A t \in Threads :
       (ScanStepOf(t) /\ Attempted(t)) =>
         LET g == HandedRange(t).range
             a == AttemptedRegion(t)
         IN /\ g.base <= a.base
            /\ RangeEnd(a) <= RangeEnd(g)
            /\ \A i \in 1 .. Len(th[t].ranges) :
                 ~RangesMeet(a, th[t].ranges[i])
            /\ Mapped(t) =>
                 /\ th'[t].result = a.base
                 /\ \A pg \in Pages :
                      mem'[pg] # mem[pg] => pg \in PagesOf(g.base, g.size)
                 /\ \A i \in 1 .. Len(th[t].ranges) :
                      \A pg \in PagesOf(th[t].ranges[i].base,
                                        th[t].ranges[i].size) :
                        mem'[pg] = mem[pg]]_vars

\* a mapping made at the base of a free range larger than the region
C17_Witness ==
  \E t \in Threads :
    /\ th[t].pc = "near_done" /\ th[t].nmaps = 1
    /\ th[t].idx > 2
    /\ th[t].result = RangeEnd(th[t].ranges[th[t].idx - 2])
    /\ th[t].result + th[t].size < th[t].ranges[th[t].idx - 1].base

\* the pages a step changes
ChangedPages == {pg \in Pages : mem'[pg] # mem[pg]}

\* C18: a call of allocatePagesNear makes at most one mapping and stops
\* scanning when it has made it; it returns a pointer exactly when it has
\* made one mapping, the pointer being the base of that mapping plus one
\* page, and returns none only when it has made no mapping.
C18_AtMostOneMapping ==
  /\ [](\A t \in Threads :
          InNearCall(t) =>
            /\ th[t].nmaps <= 1
            /\ th[t].nmaps = 1 => (th[t].pc # "near_scan" /\ th[t].result # NULL)
            /\ NearSucceeded(t) => th[t].nmaps = 1
            /\ th[t].pc = "near_done" => (th[t].result # NULL <=> th[t].nmaps = 1))
  /\ [][\A t \in Threads :
          /\ (ScanStepOf(t) /\ Mapped(t)) =>
               ChangedPages \subseteq PagesOf(th'[t].result, th[t].size)
          /\ (ScanStepOf(t) /\ ~Mapped(t)) => ChangedPages = {}
          /\ (InNearCall(t) /\ th'[t].pc = "idle") =>
               IF th[t].nmaps = 1
               THEN /\ th[t].pc = "na_seal"
                    /\ live' = live \cup {Alloc(t, th[t].result + PageSize, th[t].n)}
                    /\ \A pg \in PagesOf(th[t].result, th[t].size) : mem'[pg].mapped
               ELSE /\ th[t].pc = "near_done" /\ th[t].nmaps = 0
                    /\ live' = live /\ mem' = mem]_vars

\* a call that stopped scanning at its mapping, ranges still unread, and is
\* about to return
C18_Witness ==
  \E t \in Threads :
    /\ th[t].pc = "na_seal" /\ th[t].nmaps = 1
    /\ th[t].idx <= Len(th[t].ranges)
    /\ \A pg \in PagesOf(th[t].result, th[t].size) : mem[pg].mapped

\* the pages of a live allocation the caller may use
UsablePages(a) == PagesOf(a.p, a.n * PageSize)

\* C19: when allocatePages or allocatePagesNear returns, the header page is
\* Read-only and each usable page has the protection that was asked for,
\* with Write in it, without, or empty; the protections stay so for as
\* long as the allocation is live.
C19_HeaderReadOnly ==
  /\ [](\A a \in live :
          /\ mem[HeaderOf(a.p) \div PageSize].mapped
          /\ mem[HeaderOf(a.p) \div PageSize].prot = GUM_PAGE_READ)
  /\ [][\A t \in Threads :
          (th[t].pc \in SealPcs /\ th'[t].pc = "idle") =>
            LET a == Alloc(t, UsablePointer(th[t].result), th[t].n)
            IN /\ a \in live'
               /\ mem'[HeaderPage(t)].prot = GUM_PAGE_READ
               /\ \A pg \in UsablePages(a) :
                    mem'[pg].mapped /\ mem'[pg].prot = th[t].prot]_vars
  /\ [][\A a \in live \cap live' :
          \A pg \in RegionPages(a) :
            mem'[pg].mapped /\ mem'[pg].prot = mem[pg].prot]_vars

\* two live allocations, one asked for with no access and one with Write
C19_Witness ==
  \E a \in live : \E b \in live :
    /\ \A pg \in UsablePages(a) : mem[pg].prot = {}
    /\ \A pg \in UsablePages(b) : mem[pg].prot = {"R", "W"}
    /\ mem[HeaderOf(a.p) \div PageSize].prot = GUM_PAGE_READ
    /\ mem[HeaderOf(b.p) \div PageSize].prot = GUM_PAGE_READ

====
